---- MODULE Spec2Model ----
(***************************************************************************)
(* bindingdb.py: a command-line client of the BindingDB web service.  One  *)
(* invocation parses four optional arguments, picks one of two pipelines   *)
(* (get_ligands_by_uniprot, get_target_by_compound), sends one HTTP GET,   *)
(* transcodes the answer into a nested mapping, writes a CSV file and      *)
(* prints a confirmation.                                                  *)
(*                                                                         *)
(* Text is a sequence of fragments: every character that comes from an     *)
(* input (an argument, a date, a formatted number) is a fragment of its    *)
(* own, a literal of the source is one fragment.  "/" is always a fragment *)
(* of its own and no other fragment holds one.  A float is its number of   *)
(* tenths (the arguments used have at most one fractional digit and stay   *)
(* in the range str() renders without an exponent); None is NoneF for a    *)
(* float and NoneS for a string.  A file is a sequence of rows, and a      *)
(* file object buffers BufRows rows before it writes them at its offset.   *)
(***************************************************************************)
EXTENDS Integers, Sequences, FiniteSets, TLC

\* ------------------------------------------------------------------ bounds
MaxRuns == 2
MaxRecords == 2
BufRows == 2

Procs == {1, 2}

\* ------------------------------------------------------------------ values
NoneS == <<"None">>
NoneF == -1
Null == [t |-> "null"]

Digits == <<"0", "1", "2", "3", "4", "5", "6", "7", "8", "9">>

Digit(k) == Digits[k + 1]

DigitVal(c) == CHOOSE k \in 0..9 : Digits[k + 1] = c

RECURSIVE IntStr(_)
IntStr(n) == IF n < 10 THEN <<Digit(n)>> ELSE IntStr(n \div 10) \o <<Digit(n % 10)>>

RECURSIVE IntVal(_)
IntVal(s) == IF s = <<>> THEN 0
             ELSE 10 * IntVal(SubSeq(s, 1, Len(s) - 1)) + DigitVal(s[Len(s)])

DotAt(s) == IF \E i \in 1..Len(s) : s[i] = "."
            THEN CHOOSE i \in 1..Len(s) : s[i] = "."
            ELSE Len(s) + 1

\* float(text), as argparse applies it to --ic50_cutoff and --similarity_cutoff
ParseFloat(s) ==
    LET d == DotAt(s)
        ip == SubSeq(s, 1, d - 1)
        fp == SubSeq(s, d + 1, Len(s))
    IN 10 * IntVal(ip) + (IF fp = <<>> THEN 0 ELSE DigitVal(fp[1]))

FloatStrTrunc(v) ==
    IF v = NoneF THEN NoneS
    ELSE IntStr(v \div 10)

\* str(x) of a float x, as an f-string renders it: always a fractional part
FloatStr(v) ==
    IF v = NoneF THEN NoneS
    ELSE IntStr(v \div 10) \o <<".", Digit(v % 10)>>

\* bool(x) of an Optional[str] and of an Optional[float]
TruthyS(s) == s # NoneS /\ s # <<>>

TruthyF(v) == v # NoneF /\ v # 0

\* ------------------------------------------------------------------- dates
Dates == << [y |-> 2024, m |-> 1, d |-> 5], [y |-> 2024, m |-> 1, d |-> 6] >>

TwoDigits(n) == <<Digit((n \div 10) % 10), Digit(n % 10)>>

\* date.today().strftime("%y%m%d")
Strftime(dt) == TwoDigits(dt.y % 100) \o TwoDigits(dt.m) \o TwoDigits(dt.d)

\* --------------------------------------------------------------- arguments
\* Command lines.  DispatchArgvs crosses, per argument, absent, supplied but
\* falsy, and supplied and truthy; QueryArgvs vary the values of one query.
DispatchArgvs == [uniprot : {NoneS, <<>>, <<"P">>},
                  ic50_cutoff : {NoneS, <<"0">>, <<"1", "0", "0">>},
                  smiles : {NoneS, <<"C", "=", "C">>},
                  similarity_cutoff : {NoneS, <<"0">>, <<"0", ".", "8">>}]

LigandsArgvs == [uniprot : {<<"P">>, <<"Q">>, <<"P", "/", "Q">>},
                 ic50_cutoff : {<<"1", "0", "0">>, <<"1", "0", "0", ".", "0">>, <<"0", ".", "5">>},
                 smiles : {NoneS}, similarity_cutoff : {NoneS}]

TargetArgvs == [uniprot : {NoneS}, ic50_cutoff : {NoneS},
                smiles : {<<"C", "=", "C">>, <<"C", "/", "C">>},
                similarity_cutoff : {<<"0", ".", "8">>, <<"1">>}]

Argvs == DispatchArgvs \cup LigandsArgvs \cup TargetArgvs

OptFloat(s) == IF s = NoneS THEN NoneF ELSE ParseFloat(s)

\* SimpleArgumentParser().parse_args(): absent is None, a cutoff is a float
SimpleArgumentParser(av) ==
    [uniprot |-> av.uniprot,
     ic50_cutoff |-> OptFloat(av.ic50_cutoff),
     smiles |-> av.smiles,
     similarity_cutoff |-> OptFloat(av.similarity_cutoff)]

\* main's if / elif
DispatchEither(a) ==
    IF TruthyS(a.uniprot) \/ TruthyF(a.ic50_cutoff) THEN "target"
    ELSE IF TruthyS(a.smiles) \/ TruthyF(a.similarity_cutoff) THEN "compound"
    ELSE "none"

Dispatch(a) ==
    IF TruthyS(a.uniprot) /\ TruthyF(a.ic50_cutoff) THEN "target"
    ELSE IF TruthyS(a.smiles) /\ TruthyF(a.similarity_cutoff) THEN "compound"
    ELSE "none"

\* -------------------------------------------------------------------- URLs
Unreserved == {"C", "P", "Q", "/", "_", ".", "-", "~"} \cup {Digits[i] : i \in 1..10}

\* "%XX" of a character outside the unreserved set ("=" is the one used)
PercentCode(c) == CASE c = "=" -> <<"%", "3", "D">>

\* urllib.parse.quote(s): safe="/"
RECURSIVE quote(_)
quote(s) == IF s = <<>> THEN <<>>
            ELSE (IF s[1] \in Unreserved THEN <<s[1]>> ELSE PercentCode(s[1]))
                 \o quote(Tail(s))

LigandsUrlBase ==
    <<"https://bindingdb.org/axis2/services/BDBService", "/", "getLigandsByUniprot?uniprot=">>

TargetUrlBase ==
    <<"https://bindingdb.org/axis2/services/BDBService", "/", "getTargetByCompound?smiles=">>

LigandsUrl(uniprot, ic50_cutoff) ==
    LigandsUrlBase \o uniprot \o <<";">> \o FloatStr(ic50_cutoff)

TargetUrl(smiles, similarity_cutoff) ==
    TargetUrlBase \o quote(smiles) \o <<"&cutoff=">> \o FloatStr(similarity_cutoff)

\* ------------------------------------------------------------------- paths
Cwd == <<"/", "w">>

\* the parts of a path: split at "/", empty parts dropped
RECURSIVE Parts(_, _)
Parts(s, cur) ==
    IF s = <<>> THEN (IF cur = <<>> THEN <<>> ELSE <<cur>>)
    ELSE IF s[1] = "/" THEN (IF cur = <<>> THEN <<>> ELSE <<cur>>) \o Parts(Tail(s), <<>>)
    ELSE Parts(Tail(s), Append(cur, s[1]))

RECURSIVE Join(_)
Join(ps) == IF ps = <<>> THEN <<>>
            ELSE IF Len(ps) = 1 THEN ps[1]
            ELSE ps[1] \o <<"/">> \o Join(Tail(ps))

\* the file a name denotes for open(): the parts of cwd joined with the name
Resolve(name) == Parts(Cwd \o <<"/">> \o name, <<>>)

ParentDir(path) == SubSeq(path, 1, Len(path) - 1)

\* str(Path(name).parent.absolute())
ParentAbsolute(name) ==
    LET ps == Parts(name, <<>>)
    IN IF Len(ps) <= 1 THEN Cwd ELSE Cwd \o <<"/">> \o Join(ParentDir(ps))

LigandsFileName(today, uniprot, ic50_cutoff) ==
    today \o <<"_">> \o uniprot \o <<"_">> \o FloatStr(ic50_cutoff) \o <<"nM.csv">>

TargetFileName(today, similarity_cutoff) ==
    today \o <<"_targetSearchByCpd_">> \o FloatStr(similarity_cutoff) \o <<"nM.csv">>

\* the path inside "Results have been saved to ...!"
LigandsMessagePath(today, uniprot, ic50_cutoff) ==
    ParentAbsolute(LigandsFileName(today, uniprot, ic50_cutoff))
        \o <<"/">> \o LigandsFileName(today, uniprot, ic50_cutoff)

TargetMessagePath(today, smiles, similarity_cutoff) ==
    ParentAbsolute(today \o <<"_">> \o smiles \o <<"_">>
                   \o FloatStr(similarity_cutoff) \o <<"nM.csv">>)
        \o <<"/">> \o TargetFileName(today, similarity_cutoff)

Message(path) == <<"Results have been saved to ">> \o path \o <<"!">>

\* --------------------------------------------------------------- responses
FieldOrder == <<"bdb:target", "bdb:species", "bdb:smiles", "bdb:tanimoto",
                "bdb:affinity_type", "bdb:affinity">>

R1 == [k \in {FieldOrder[i] : i \in 1..6} |->
         CASE k = "bdb:target" -> "Kinase"
           [] k = "bdb:species" -> "Human"
           [] k = "bdb:smiles" -> "CCO"
           [] k = "bdb:tanimoto" -> "0.9"
           [] k = "bdb:affinity_type" -> "IC50"
           [] OTHER -> "<10"]

R2 == [k \in {FieldOrder[i] : i \in 1..6} |->
         CASE k = "bdb:target" -> "Protease"
           [] k = "bdb:species" -> "Rat"
           [] k = "bdb:smiles" -> "CCN"
           [] k = "bdb:tanimoto" -> "1.0"
           [] k = "bdb:affinity_type" -> "Ki"
           [] OTHER -> "42"]

\* a record the service sent without its bdb:affinity element
R3 == [k \in {FieldOrder[i] : i \in 1..5} |-> R1[k]]

Complete == {R1, R2}

\* the lists of records a response may hold: complete records in any order,
\* or a list whose last record is the incomplete one
RecLists == UNION {[1..n -> Complete] : n \in 0..MaxRecords} \cup {<<R3>>, <<R1, R3>>}

\* response.text: nothing, markup without the response element, or the
\* response element with its bdb:affinities children
Bodies == {[kind |-> "empty"], [kind |-> "other"]}
          \cup {[kind |-> "affinities", recs |-> rs] : rs \in RecLists}

\* what a non-2xx response carries: an error page, or a body all the same
ErrorBodies == {[kind |-> "other"], [kind |-> "affinities", recs |-> <<R1, R2>>]}

ConnectionFailure == [t |-> "ConnectionError"]

Responses == {ConnectionFailure}
             \cup {[t |-> "response", status |-> 200, body |-> b] : b \in Bodies}
             \cup {[t |-> "response", status |-> 500, body |-> b] : b \in ErrorBodies}

\* xmltodict.parse(BeautifulSoup(...).prettify()), seen through the fixed path
\* html -> body -> bdb:...response -> bdb:affinities: no element at all is a
\* parse error; one child is its mapping, several are a list of mappings
XmlToDict(b) ==
    IF b.kind = "empty" THEN [t |-> "ExpatError"]
    ELSE IF b.kind = "other" \/ Len(b.recs) = 0 THEN [t |-> "absent"]
    ELSE IF Len(b.recs) = 1 THEN [t |-> "map", m |-> b.recs[1]]
    ELSE [t |-> "list", l |-> b.recs]

Keys(m) == SelectSeq(FieldOrder, LAMBDA k : k \in DOMAIN m)

\* what "for x in v" yields: the elements of a list, the keys of a mapping
Iterate(v) ==
    IF v.t = "list" THEN [i \in 1..Len(v.l) |-> [t |-> "map", m |-> v.l[i]]]
    ELSE [i \in 1..Len(Keys(v.m)) |-> [t |-> "str", s |-> Keys(v.m)[i]]]

\* item[k] raises on a str item (TypeError) and on a missing key (KeyError)
Subscriptable(item, ks) == item.t = "map" /\ ks \subseteq DOMAIN item.m

SubscriptError(item) == IF item.t = "map" THEN "KeyError" ELSE "TypeError"

\* --------------------------------------------------------------------- CSV
Hole == <<>>

LigandsHeader == << <<"SMILES">>, <<"Affinity Type">>, <<"Affinity (nM)">> >>

TargetHeader == << <<"Target [Species]">>, <<"SMILES (Tanimoto Similarity)">>,
                   <<"Affinity Type">>, <<"Affinity (nM)">> >>

LigandsFields == {"bdb:smiles", "bdb:affinity_type", "bdb:affinity"}

TargetFields == {FieldOrder[i] : i \in 1..6}

LigandsRow(m) == << <<m["bdb:smiles"]>>, <<m["bdb:affinity_type"]>>, <<m["bdb:affinity"]>> >>

TargetRow(m) == << <<m["bdb:target"], " [", m["bdb:species"], "]">>,
                   <<m["bdb:smiles"], " (", m["bdb:tanimoto"], ")">>,
                   <<m["bdb:affinity_type"]>>, <<m["bdb:affinity"]>> >>

Max(a, b) == IF a >= b THEN a ELSE b

WriteAppend(content, pos, data) == content \o data

\* write(2) of data at offset pos of a file: a gap is filled with holes
WriteAt(content, pos, data) ==
    [i \in 1..Max(Len(content), pos + Len(data)) |->
        IF i > pos /\ i <= pos + Len(data) THEN data[i - pos]
        ELSE IF i <= Len(content) THEN content[i]
        ELSE Hole]

\* ------------------------------------------------------------------- state
VARIABLES
    day,         \* the machine's date: an index into Dates
    dirs,        \* the directories that exist (paths as sequences of parts)
    fs,          \* the files that exist: path -> rows
    runs,        \* invocations started so far
    pc,          \* each process's position in main
    argv,        \* each process's command line
    TODAY,       \* the module constant, set at import
    requests,    \* the URLs each invocation has sent a GET to
    response,    \* requests.get's result
    my_dict,     \* the transcoded mapping's bdb:affinities entry
    fd,          \* the open output file: name, path, offset, buffer
    items,       \* what the for loop iterates over
    idx,         \* the loop's position
    stdout,      \* what the invocation has printed
    exit,        \* "none" while running, "ok", or the uncaught error
    trace,       \* the invocation's side effects in order
    fs0,         \* the files as they were when the invocation started
    opened,      \* every open() that succeeded: process, day, query, name, path
    lastWriter,  \* the process whose write(2) reached a file last
    call,        \* the function main has called, "none" for neither
    overlapped   \* a file was opened while another process had it open

vars == <<day, dirs, fs, runs, pc, argv, TODAY, requests, response, my_dict, fd,
          items, idx, stdout, exit, trace, fs0, opened, lastWriter, call, overlapped>>

NoArgv == [uniprot |-> NoneS, ic50_cutoff |-> NoneS,
           smiles |-> NoneS, similarity_cutoff |-> NoneS]

Args(p) == SimpleArgumentParser(argv[p])

Mode(p) == IF call[p] = "get_ligands_by_uniprot" THEN "target"
           ELSE IF call[p] = "get_target_by_compound" THEN "compound"
           ELSE "none"

\* the query an invocation makes: the variant and its two parameters
Query(p) ==
    IF Mode(p) = "target"
    THEN [mode |-> "target", id |-> Args(p).uniprot, cutoff |-> Args(p).ic50_cutoff]
    ELSE [mode |-> "compound", id |-> Args(p).smiles, cutoff |-> Args(p).similarity_cutoff]

Running(p) == pc[p] \notin {"idle", "done", "failed"}

Header(mode) == IF mode = "target" THEN LigandsHeader ELSE TargetHeader

Fields(mode) == IF mode = "target" THEN LigandsFields ELSE TargetFields

Row(mode, m) == IF mode = "target" THEN LigandsRow(m) ELSE TargetRow(m)

FileNameOf(mode, today, a) ==
    IF mode = "target"
    THEN LigandsFileName(today, a.uniprot, a.ic50_cutoff)
    ELSE TargetFileName(today, a.similarity_cutoff)

ModeOf(av) == IF av \in LigandsArgvs THEN "target" ELSE "compound"

\* the rows of a result file: the header, then one row per record
Csv(mode, recs) == <<Header(mode)>> \o [i \in 1..Len(recs) |-> Row(mode, recs[i])]

\* the directories a run may find below its working directory
DirChoices == { {Parts(Cwd, <<>>)},
                {Parts(Cwd, <<>>), Resolve(Strftime(Dates[1]) \o <<"_", "P">>)} }

NoFiles == [q \in {} |-> <<>>]

\* the file a query of day d writes
PathOf(d, av) == Resolve(FileNameOf(ModeOf(av), Strftime(Dates[d]), SimpleArgumentParser(av)))

\* what earlier successful runs may have left in the working directory: one
\* result file of some query of some day up to today
EarlierFiles(ds, today) ==
    {NoFiles} \cup
    { [q \in {PathOf(x[1], x[2])} |-> Csv(ModeOf(x[2]), <<R2, R1>>)] :
      x \in {y \in (1..today) \X (LigandsArgvs \cup TargetArgvs) :
               ParentDir(PathOf(y[1], y[2])) \in ds} }

Idle ==
    /\ runs = 0
    /\ pc = [p \in Procs |-> "idle"]
    /\ argv = [p \in Procs |-> NoArgv]
    /\ TODAY = [p \in Procs |-> <<>>]
    /\ requests = [p \in Procs |-> <<>>]
    /\ response = [p \in Procs |-> Null]
    /\ my_dict = [p \in Procs |-> Null]
    /\ fd = [p \in Procs |-> Null]
    /\ items = [p \in Procs |-> <<>>]
    /\ idx = [p \in Procs |-> 0]
    /\ stdout = [p \in Procs |-> <<>>]
    /\ exit = [p \in Procs |-> "none"]
    /\ trace = [p \in Procs |-> <<>>]
    /\ fs0 = [p \in Procs |-> fs]
    /\ opened = <<>>
    /\ lastWriter = 0
    /\ call = [p \in Procs |-> "none"]
    /\ overlapped = FALSE

\* one invocation, on any day, in a directory earlier runs may have used
Init ==
    /\ day \in 1..Len(Dates)
    /\ dirs \in DirChoices
    /\ fs \in EarlierFiles(dirs, day)
    /\ Idle

\* a fresh directory on the first day
InitFresh ==
    /\ day = 1
    /\ dirs \in DirChoices
    /\ fs = NoFiles
    /\ Idle

\* ----------------------------------------------------------------- helpers
Put(path, rows) == [q \in DOMAIN fs \cup {path} |-> IF q = path THEN rows ELSE fs[q]]

Unflushed(f) == fs

\* flush of the file object's buffer: one write(2) at the object's own offset
Flushed(f) == IF f.buf = <<>> THEN fs ELSE Put(f.path, WriteAt(fs[f.path], f.pos, f.buf))

\* an exception leaves the with block: the file is flushed and closed
Raise(p, err) ==
    /\ pc' = [pc EXCEPT ![p] = "failed"]
    /\ exit' = [exit EXCEPT ![p] = err]
    /\ IF fd[p] = Null
       THEN UNCHANGED <<fs, fd, lastWriter>>
       ELSE /\ fs' = Flushed(fd[p])
            /\ fd' = [fd EXCEPT ![p] = Null]
            /\ lastWriter' = IF fd[p].buf = <<>> THEN lastWriter ELSE p

\* csv_writer.writerow(row): into the buffer, flushed when it is full
Buffered(p, row) ==
    LET f == fd[p]
        b == Append(f.buf, row)
    IN IF Len(b) >= BufRows
       THEN /\ fs' = Put(f.path, WriteAt(fs[f.path], f.pos, b))
            /\ fd' = [fd EXCEPT ![p] = [f EXCEPT !.pos = f.pos + Len(b), !.buf = <<>>]]
            /\ lastWriter' = p
       ELSE /\ fd' = [fd EXCEPT ![p] = [f EXCEPT !.buf = b]]
            /\ UNCHANGED <<fs, lastWriter>>

Url(p) == IF Mode(p) = "target"
          THEN LigandsUrl(Args(p).uniprot, Args(p).ic50_cutoff)
          ELSE TargetUrl(Args(p).smiles, Args(p).similarity_cutoff)

FileName(p) == FileNameOf(Mode(p), TODAY[p], Args(p))

MessagePath(p) ==
    IF Mode(p) = "target"
    THEN LigandsMessagePath(TODAY[p], Args(p).uniprot, Args(p).ic50_cutoff)
    ELSE TargetMessagePath(TODAY[p], Args(p).smiles, Args(p).similarity_cutoff)

\* ----------------------------------------------------------------- actions
\* python bindingdb.py ...: the module is imported (TODAY), the arguments read
Invoke(p, av) ==
    /\ runs' = runs + 1
    /\ pc' = [pc EXCEPT ![p] = "main"]
    /\ argv' = [argv EXCEPT ![p] = av]
    /\ TODAY' = [TODAY EXCEPT ![p] = Strftime(Dates[day])]
    /\ requests' = [requests EXCEPT ![p] = <<>>]
    /\ response' = [response EXCEPT ![p] = Null]
    /\ my_dict' = [my_dict EXCEPT ![p] = Null]
    /\ items' = [items EXCEPT ![p] = <<>>]
    /\ idx' = [idx EXCEPT ![p] = 0]
    /\ stdout' = [stdout EXCEPT ![p] = <<>>]
    /\ exit' = [exit EXCEPT ![p] = "none"]
    /\ trace' = [trace EXCEPT ![p] = <<>>]
    /\ fs0' = [fs0 EXCEPT ![p] = fs]
    /\ call' = [call EXCEPT ![p] = "none"]
    /\ UNCHANGED <<day, dirs, fs, fd, opened, lastWriter, overlapped>>

\* the invocation
Start ==
    /\ runs = 0
    /\ \E av \in Argvs : Invoke(1, av)

\* one invocation after the other, each with a complete query
Again ==
    /\ ~Running(1)
    /\ runs < MaxRuns
    /\ \E av \in LigandsArgvs \cup TargetArgvs : Invoke(1, av)

\* two invocations of the same query on the same day, side by side
RaceArgv == [uniprot |-> <<"P">>, ic50_cutoff |-> <<"1", "0", "0">>,
             smiles |-> NoneS, similarity_cutoff |-> NoneS]

StartRace(p) ==
    /\ pc[p] = "idle"
    /\ Invoke(p, RaceArgv)

\* the date changes; only an import reads it
Midnight ==
    /\ \A p \in Procs : ~Running(p)
    /\ day < Len(Dates)
    /\ day' = day + 1
    /\ UNCHANGED <<dirs, fs, runs, pc, argv, TODAY, requests, response, my_dict, fd,
                   items, idx, stdout, exit, trace, fs0, opened, lastWriter, call, overlapped>>

\* main: if uniprot and ic50_cutoff / elif smiles and similarity_cutoff
main(p) ==
    /\ pc[p] = "main"
    /\ LET m == Dispatch(Args(p))
       IN IF m = "none"
          THEN /\ pc' = [pc EXCEPT ![p] = "done"]
               /\ exit' = [exit EXCEPT ![p] = "ok"]
               /\ UNCHANGED call
          ELSE /\ pc' = [pc EXCEPT ![p] = "request"]
               /\ call' = [call EXCEPT ![p] = IF m = "target" THEN "get_ligands_by_uniprot"
                                              ELSE "get_target_by_compound"]
               /\ UNCHANGED exit
    /\ UNCHANGED <<day, dirs, fs, runs, argv, TODAY, requests, response, my_dict, fd,
                   items, idx, stdout, trace, fs0, opened, lastWriter, overlapped>>

\* response = requests.get(url): no status check follows
requests_get(p) ==
    /\ pc[p] = "request"
    /\ requests' = [requests EXCEPT ![p] = Append(@, Url(p))]
    /\ trace' = [trace EXCEPT ![p] = Append(@, "request")]
    /\ \E r \in Responses :
         IF r = ConnectionFailure
         THEN /\ Raise(p, "ConnectionError")
              /\ UNCHANGED response
         ELSE /\ response' = [response EXCEPT ![p] = r]
              /\ pc' = [pc EXCEPT ![p] = "transcode"]
              /\ UNCHANGED <<fs, fd, exit, lastWriter>>
    /\ UNCHANGED <<day, dirs, runs, argv, TODAY, my_dict, items, idx, stdout, fs0, opened,
                   call, overlapped>>

\* xml_content = BeautifulSoup(...).prettify(); my_dict = xmltodict.parse(xml_content)
transcode(p) ==
    /\ pc[p] = "transcode"
    /\ trace' = [trace EXCEPT ![p] = Append(@, "transcode")]
    /\ LET d == XmlToDict(response[p].body)
       IN IF d.t = "ExpatError"
          THEN /\ Raise(p, "ExpatError")
               /\ UNCHANGED my_dict
          ELSE /\ my_dict' = [my_dict EXCEPT ![p] = d]
               /\ pc' = [pc EXCEPT ![p] = "open"]
               /\ UNCHANGED <<fs, fd, exit, lastWriter>>
    /\ UNCHANGED <<day, dirs, runs, argv, TODAY, requests, response, items, idx, stdout,
                   fs0, opened, call, overlapped>>

\* with open(name, "w") as output_file: created or truncated
open(p) ==
    /\ pc[p] = "open"
    /\ LET name == FileName(p)
           path == Resolve(name)
       IN IF ParentDir(path) \notin dirs
          THEN /\ Raise(p, "FileNotFoundError")
               /\ UNCHANGED <<trace, opened, overlapped>>
          ELSE /\ fs' = Put(path, <<>>)
               /\ overlapped' = (overlapped \/ \E q \in Procs : fd[q] # Null /\ fd[q].path = path)
               /\ fd' = [fd EXCEPT ![p] = [name |-> name, path |-> path, pos |-> 0, buf |-> <<>>]]
               /\ opened' = Append(opened, [proc |-> p, day |-> day, query |-> Query(p),
                                            name |-> name, path |-> path])
               /\ trace' = [trace EXCEPT ![p] = Append(@, "open")]
               /\ pc' = [pc EXCEPT ![p] = "header"]
               /\ UNCHANGED <<exit, lastWriter>>
    /\ UNCHANGED <<day, dirs, runs, argv, TODAY, requests, response, my_dict, items, idx,
                   stdout, fs0, call>>

\* csv_writer.writerow(header)
writeheader(p) ==
    /\ pc[p] = "header"
    /\ Buffered(p, Header(Mode(p)))
    /\ pc' = [pc EXCEPT ![p] = "iter"]
    /\ UNCHANGED <<day, dirs, runs, argv, TODAY, requests, response, my_dict, items, idx,
                   stdout, exit, trace, fs0, opened, call, overlapped>>

\* for ligand in my_dict["html"]["body"][...]["bdb:affinities"]:
iterate(p) ==
    /\ pc[p] = "iter"
    /\ IF my_dict[p].t = "absent"
       THEN /\ Raise(p, "KeyError")
            /\ UNCHANGED <<items, idx>>
       ELSE /\ items' = [items EXCEPT ![p] = Iterate(my_dict[p])]
            /\ idx' = [idx EXCEPT ![p] = 1]
            /\ pc' = [pc EXCEPT ![p] = "rows"]
            /\ UNCHANGED <<fs, fd, exit, lastWriter>>
    /\ UNCHANGED <<day, dirs, runs, argv, TODAY, requests, response, my_dict, stdout,
                   trace, fs0, opened, call, overlapped>>

\* result = [ligand[...], ...]; csv_writer.writerow(result)
writerow(p) ==
    /\ pc[p] = "rows"
    /\ idx[p] <= Len(items[p])
    /\ LET item == items[p][idx[p]]
       IN IF ~Subscriptable(item, Fields(Mode(p)))
          THEN /\ Raise(p, SubscriptError(item))
               /\ UNCHANGED idx
          ELSE /\ Buffered(p, Row(Mode(p), item.m))
               /\ idx' = [idx EXCEPT ![p] = @ + 1]
               /\ UNCHANGED <<pc, exit>>
    /\ UNCHANGED <<day, dirs, runs, argv, TODAY, requests, response, my_dict, items,
                   stdout, trace, fs0, opened, call, overlapped>>

\* the loop is over: the with block is left, the file flushed and closed
\* (get_target_by_compound returns from inside the block: its message, which
\* reads no state a step changes, is built first and the file closed then)
close(p) ==
    /\ pc[p] = "rows"
    /\ idx[p] > Len(items[p])
    /\ fs' = Flushed(fd[p])
    /\ lastWriter' = IF fd[p].buf = <<>> THEN lastWriter ELSE p
    /\ fd' = [fd EXCEPT ![p] = Null]
    /\ trace' = [trace EXCEPT ![p] = Append(@, "close")]
    /\ pc' = [pc EXCEPT ![p] = "print"]
    /\ UNCHANGED <<day, dirs, runs, argv, TODAY, requests, response, my_dict, items, idx,
                   stdout, exit, fs0, opened, call, overlapped>>

\* return "Results have been saved to ...!"; main prints it
print(p) ==
    /\ pc[p] = "print"
    /\ stdout' = [stdout EXCEPT ![p] = Append(@, Message(MessagePath(p)))]
    /\ trace' = [trace EXCEPT ![p] = Append(@, "confirm")]
    /\ pc' = [pc EXCEPT ![p] = "done"]
    /\ exit' = [exit EXCEPT ![p] = "ok"]
    /\ UNCHANGED <<day, dirs, fs, runs, argv, TODAY, requests, response, my_dict, fd,
                   items, idx, fs0, opened, lastWriter, call, overlapped>>

Step(p) ==
    \/ main(p)
    \/ requests_get(p)
    \/ transcode(p)
    \/ open(p)
    \/ writeheader(p)
    \/ iterate(p)
    \/ writerow(p)
    \/ close(p)
    \/ print(p)

Next == Start \/ Step(1)

Spec == Init /\ [][Next]_vars

NextSeq == Again \/ Midnight \/ Step(1)

SpecSeq == InitFresh /\ [][NextSeq]_vars

NextRace == \E p \in Procs : StartRace(p) \/ Step(p)

SpecRace == InitFresh /\ [][NextRace]_vars

\* ------------------------------------------------------------------ claims
Dispatched(p) == pc[p] \notin {"idle", "main"}

Ended(p) == pc[p] \in {"done", "failed"}

TargetSupplied(p) == argv[p].uniprot # NoneS /\ argv[p].ic50_cutoff # NoneS

CompoundSupplied(p) == argv[p].smiles # NoneS /\ argv[p].similarity_cutoff # NoneS

\* the last open() of process p
OpenedBy(p) ==
    LET I == {i \in DOMAIN opened : opened[i].proc = p}
    IN opened[CHOOSE i \in I : \A j \in I : j <= i]

HasOpened(p) == \E i \in DOMAIN opened : opened[i].proc = p

\* C1: whenever uniprot and ic50_cutoff are both supplied, whatever their
\* values, main runs get_ligands_by_uniprot; whenever they are not both
\* supplied but smiles and similarity_cutoff are, main runs
\* get_target_by_compound.
C1_DispatchOnSupplied ==
    \A p \in Procs :
        Dispatched(p) =>
            /\ TargetSupplied(p) => call[p] = "get_ligands_by_uniprot"
            /\ (~TargetSupplied(p) /\ CompoundSupplied(p)) =>
                   call[p] = "get_target_by_compound"

\* C2: when neither pair is fully supplied, main sends no request, creates or
\* truncates no file, prints nothing and ends normally.
C2_NoPairNoAction ==
    \A p \in Procs :
        (Dispatched(p) /\ ~TargetSupplied(p) /\ ~CompoundSupplied(p)) =>
            /\ pc[p] = "done"
            /\ exit[p] = "ok"
            /\ requests[p] = <<>>
            /\ trace[p] = <<>>
            /\ stdout[p] = <<>>
            /\ fs = fs0[p]

C2_Witness ==
    /\ pc[1] = "done"
    /\ ~TargetSupplied(1) /\ ~CompoundSupplied(1)
    /\ argv[1].uniprot = <<"P">>
    /\ argv[1].similarity_cutoff = <<"0", ".", "8">>
    /\ fs # NoFiles

\* C3: a 200 response whose response element holds N >= 0 complete
\* bdb:affinities records ends in a CSV of N + 1 rows: the header, then one
\* row per record, in order, the values verbatim (N = 0 and N = 1 included).
C3_RowPerRecord ==
    \A p \in Procs :
        (/\ Ended(p)
         /\ response[p] # Null
         /\ response[p].status = 200
         /\ response[p].body.kind = "affinities"
         /\ \A i \in DOMAIN response[p].body.recs : response[p].body.recs[i] \in Complete
         /\ exit[p] # "FileNotFoundError") =>
            /\ exit[p] = "ok"
            /\ HasOpened(p)
            /\ fs[OpenedBy(p).path] = Csv(Mode(p), response[p].body.recs)

\* C4: a connection failure or a non-2xx status ends the run in a fatal error:
\* nothing is transcoded, no file is created or truncated, nothing is printed.
C4_HttpFailureIsFatal ==
    \A p \in Procs :
        (exit[p] = "ConnectionError" \/ (response[p] # Null /\ response[p].status \notin 200..299)) =>
            /\ my_dict[p] = Null
            /\ fs = fs0[p]
            /\ stdout[p] = <<>>
            /\ Ended(p) => exit[p] # "ok"

\* the path a confirmation message holds
PathIn(msg) == SubSeq(msg, 2, Len(msg) - 1)

\* C5: after a successful run the path in the confirmation message is the
\* absolute path of the file the run opened and wrote: the working directory
\* joined with the name passed to open().
C5_MessageNamesTheFile ==
    \A p \in Procs :
        (exit[p] = "ok" /\ stdout[p] # <<>>) =>
            Parts(PathIn(stdout[p][1]), <<>>) = OpenedBy(p).path

\* C6: two invocations write to the same file if and only if they run on the
\* same day with identical query parameters.
C6_SameFileIffSameQuery ==
    \A i, j \in DOMAIN opened :
        (opened[i].path = opened[j].path)
            <=> (opened[i].day = opened[j].day /\ opened[i].query = opened[j].query)

\* plain decimal formatting: an integral value without a fractional part
PlainDecimal(v) ==
    IF v % 10 = 0 THEN IntStr(v \div 10)
    ELSE IntStr(v \div 10) \o <<".", Digit(v % 10)>>

LigandsRequest(p) == call[p] = "get_ligands_by_uniprot" /\ requests[p] # <<>>

\* C7 as stated: the URL requested is the base, uniprot verbatim, ";" and the
\* cutoff in plain decimal formatting (100, not 100.0).
C7_PlainCutoffInUrl ==
    \A p \in Procs :
        LigandsRequest(p) =>
            requests[p][1] = LigandsUrlBase \o argv[p].uniprot \o <<";">>
                                 \o PlainDecimal(ParseFloat(argv[p].ic50_cutoff))

\* the text after "...?uniprot={uniprot};"
CutoffIn(p) ==
    LET n == Len(LigandsUrlBase) + Len(argv[p].uniprot) + 1
    IN SubSeq(requests[p][1], n + 1, Len(requests[p][1]))

\* C7 amended: the URL requested is the base, uniprot verbatim, ";" and the
\* cutoff as the float the argument parses to, rendered by the default float
\* conversion: digits, one ".", at least one fractional digit, no leading
\* zero, so that an integral cutoff such as 100 appears as 100.0.
C7_FloatCutoffInUrl ==
    \A p \in Procs :
        LigandsRequest(p) =>
            LET n == Len(LigandsUrlBase) + Len(argv[p].uniprot) + 1
                c == CutoffIn(p)
                d == DotAt(c)
            IN /\ SubSeq(requests[p][1], 1, n) = LigandsUrlBase \o argv[p].uniprot \o <<";">>
               /\ d > 1 /\ d < Len(c)
               /\ \A i \in 1..Len(c) : i # d => \E k \in 0..9 : c[i] = Digit(k)
               /\ (d > 2 => c[1] # "0")
               /\ ParseFloat(c) = ParseFloat(argv[p].ic50_cutoff)
               /\ (DotAt(argv[p].ic50_cutoff) > Len(argv[p].ic50_cutoff)
                     => SubSeq(c, d, Len(c)) = <<".", "0">>)

C7_Witness ==
    /\ LigandsRequest(1)
    /\ argv[1].ic50_cutoff = <<"1", "0", "0">>
    /\ CutoffIn(1) = <<"1", "0", "0", ".", "0">>

\* the records process p's response holds
Recs(p) == response[p].body.recs

BothSucceeded == \A p \in Procs : pc[p] = "done" /\ exit[p] = "ok"

SharedPath == OpenedBy(1).path

Count(seq, x) == Cardinality({i \in DOMAIN seq : seq[i] = x})

IsPrefix(a, b) == Len(a) <= Len(b) /\ a = SubSeq(b, 1, Len(a))

\* C9: an invocation sends at most one GET and opens at most one file, in the
\* order request, transcode, file write, confirmation; when both complete
\* pairs are supplied only the target search runs.
C9_OneVariantInOrder ==
    \A p \in Procs :
        /\ Len(requests[p]) <= 1
        /\ Count(trace[p], "open") <= 1
        /\ IsPrefix(trace[p], <<"request", "transcode", "open", "close", "confirm">>)
        /\ (Dispatched(p) /\ TargetSupplied(p) /\ CompoundSupplied(p)) =>
               /\ call[p] # "get_target_by_compound"
               /\ \A i \in DOMAIN requests[p] :
                      SubSeq(requests[p][i], 1, Len(TargetUrlBase)) # TargetUrlBase

\* the rows process p had written when its loop failed
RowsBeforeFailure(p) ==
    IF my_dict[p].t = "list"
    THEN Csv(Mode(p), SubSeq(my_dict[p].l, 1, idx[p] - 1))
    ELSE <<Header(Mode(p))>>

====
